---- MODULE Spec2Model ----
(***************************************************************************)
(* m-molecula741/shortener: the URL registry (URLService over a URLStorage *)
(* backend) and its asynchronous deletion pipeline.                        *)
(*                                                                         *)
(*   Spec      the synchronous service operations over the two backends    *)
(*             (InMemoryStorage, PostgresStorage)                          *)
(*   SpecSnap  InMemoryStorage with its FileBackup snapshot: Backup and the *)
(*             construction of a new store from the file                   *)
(*   SpecBatch the operations that batches are saved after: Shorten,        *)
(*             ShortenBatch, BatchDeleteUserURLs                           *)
(*   SpecRace  Shorten called by two goroutines, one storage statement per *)
(*             step                                                        *)
(*   SpecPipeBlocked  the pipeline while one store call never returns      *)
(*   SpecDrain the pipeline over a store that holds mappings, up to the    *)
(*             Close() and Backup() of the process teardown                *)
(*   SpecPipe  the deletion pipeline of URLService (deleteChan, three      *)
(*             deleteWorker/batchCollector pairs, processBatch, Close)     *)
(***************************************************************************)
EXTENDS Integers, Sequences, FiniteSets, TLC

(***************************************************************************)
(* Input domains.                                                          *)
(***************************************************************************)
\* values generateShortID can return: 8 characters of the URL-safe alphabet
ShortIDs == {"AAAAAAAA", "BBBBBBBB"}
\* original URLs submitted by clients
URLs == {"http://x", "http://y"}
\* owner identifiers handed in by the auth layer (never empty there)
UserIDs == {"u1", "u2"}
\* original URLs of the snapshot runs (SpecSnap). Model strings stand for Go
\* byte strings: "!" stands for one byte that is not valid UTF-8 (the plain
\* text handler passes string(body) on unchecked), "#" for the rune U+FFFD
SnapURLs == {"http://x", "http://y?a&b", "http://x!"}
\* cfg.BaseURL as configured, with and without the trailing slash
BaseURLs == {"http://h", "http://h/"}
\* longest request list of one ShortenBatch call
MaxBatchReq == 2
\* longest request list of one ShortenBatch call in the runs that record
\* history (SpecHist)
MaxHistBatchReq == 1
\* longest short-ID list of one deletion request
MaxDelIDs == 2

\* Capacities and counts of the deletion pipeline. The source's values are
\* make(chan DeleteRequest, 100), numWorkers = 3, make(chan []DeleteRequest, 10)
\* and maxBatchSize = 10; the model keeps their roles and scales them down.
deleteChanCap == 2
numWorkers == 2
batchChanCap == 1
maxBatchSize == 2
\* DeleteUserURLs calls made in one run
MaxReqs == 3
\* DeleteUserURLs calls made in one run checked under fair scheduling
MaxFairReqs == 2
\* DeleteUserURLs calls made in one run in which a store call never returns
MaxBlockedReqs == 3
\* the worker whose store call never returns in those runs
BlockedWorker == 1
\* DeleteUserURLs calls made in one run that ends with the process teardown
MaxDrainReqs == 3

\* the two goroutines (HTTP handlers) that call Shorten at the same time
Callers == {1, 2}
\* values generateShortID can return to them
CallerIDs == ShortIDs \cup {"CCCCCCCC"}

\* column user_id of a row inserted by Save: SQL NULL
NULL == "<NULL>"
\* the zero value of an error-free ret
NoRet == [op |-> "none"]
\* a caller that is not in a call
NoShorten == [pc |-> "idle"]

VARIABLES
    backend,   \* main.go: which URLStorage implementation is in use
    baseURL,   \* URLService.baseURL
    urls,      \* InMemoryStorage.urls : shortID -> original URL
    users,     \* InMemoryStorage.users : userID -> list of shortIDs
    rows,      \* PostgresStorage: table urls, keyed by short_id
    hist,      \* history recording is on (SpecHist) or off (Spec)
    issued,    \* history: the observed successful Shorten, as {<<url, shortID>>}
    named,     \* history: observed short IDs an applied deletion has named
    ret,       \* the last service call and what it returned
    records,   \* FileBackup.records : shortURL -> original URL of the record
    file       \* the snapshot file: the encoded records; {} when there is none

snapVars == <<records, file>>

storeVars == <<backend, baseURL, urls, users, rows, hist, issued, named, ret, snapVars>>

VARIABLES
    deleteChan,  \* URLService.deleteChan: the buffered requests, oldest first
    chanClosed,  \* close(s.deleteChan) has run
    cpc,         \* batchCollector of each worker: where it stands
    batch,       \* batchCollector: its local batch
    timer,       \* batchCollector: its timer, [armed, c]; c is a value in timer.C
    batchChan,   \* deleteWorker: its batchChan, oldest batch first
    batchClosed, \* close(batchChan) has run
    wpc,         \* deleteWorker of each worker: where it stands
    todo,        \* processBatch: the entries of userBatches not yet iterated
    inflight,    \* processBatch: the store call that has not returned yet
    closePc,     \* Close(): "open" (not called), "waiting", "returned"
    dret,        \* what the last DeleteUserURLs call returned
    quota,       \* environment: number of DeleteUserURLs calls of this run
    nsub,        \* history: number of DeleteUserURLs calls so far
    accepted,    \* history: tags of the requests DeleteUserURLs enqueued
    rejected,    \* history: tags of the requests answered ErrDeleteChannelFull
    applied,     \* history: tag -> times its IDs went to BatchDeleteUserURLs
    curBatch,    \* history: the batch the worker's processBatch is working on
    made         \* history: the store calls of that processBatch that returned

pipeVars == <<deleteChan, chanClosed, cpc, batch, timer, batchChan, batchClosed,
              wpc, todo, inflight, closePc, dret, quota, nsub, accepted,
              rejected, applied, curBatch, made>>

VARIABLES
    calls        \* the Shorten calls in progress: caller -> where its call stands

callVars == <<calls>>

vars == <<storeVars, pipeVars, callVars>>

(***************************************************************************)
(* Helpers.                                                                *)
(***************************************************************************)
Range(s) == {s[i] : i \in 1..Len(s)}

\* strings.HasSuffix(s, "/")
HasSuffixSlash(s) == Len(s) > 0 /\ SubSeq(s, Len(s), Len(s)) = "/"

\* m[k] = v on a Go map
MapPut(m, k, v) == [x \in DOMAIN m \cup {k} |-> IF x = k THEN v ELSE m[x]]

\* delete(m, k) on a Go map
MapDelete(m, k) == [x \in DOMAIN m \ {k} |-> m[x]]

\* sequences over S of length lo..hi
SeqsOf(S, lo, hi) == UNION {[1..n -> S] : n \in lo..hi}

(***************************************************************************)
(* InMemoryStorage.                                                        *)
(***************************************************************************)
\* faulty variant, for sensitivity analysis: Save stores the pair before it
\* reports the conflict
MemSaveThenConflict(m, shortID, url) ==
    LET hits == {k \in DOMAIN m : m[k] = url}
    IN  IF hits # {}
        THEN {[urls |-> MapPut(m, shortID, url), err |-> "conflict", existing |-> k]
                : k \in hits}
        ELSE {[urls |-> MapPut(m, shortID, url), err |-> "nil", existing |-> ""]}

\* faulty variant, for sensitivity analysis: Save without the scan for the URL
MemSaveNoScan(m, shortID, url) ==
    {[urls |-> MapPut(m, shortID, url), err |-> "nil", existing |-> ""]}

\* Save: the outcomes of one call; the conflict scan ranges over the map in
\* Go's unspecified iteration order, so any key holding the URL can be hit.
MemSave(m, shortID, url) ==
    LET hits == {k \in DOMAIN m : m[k] = url}
    IN  IF hits # {}
        THEN {[urls |-> m, err |-> "conflict", existing |-> k] : k \in hits}
        ELSE {[urls |-> MapPut(m, shortID, url), err |-> "nil", existing |-> ""]}

MemGet(m, shortID) ==
    IF shortID \in DOMAIN m
    THEN [url |-> m[shortID], err |-> "nil"]
    ELSE [url |-> "", err |-> "notfound"]

\* one iteration of SaveBatch's loop over a URLPair
MemSavePair(st, p) ==
    LET m1 == IF p.ShortID \in DOMAIN st.urls
              THEN st.urls
              ELSE MapPut(st.urls, p.ShortID, p.OriginalURL)
        found == /\ p.UserID \in DOMAIN st.users
                 /\ p.ShortID \in Range(st.users[p.UserID])
        old == IF p.UserID \in DOMAIN st.users THEN st.users[p.UserID] ELSE <<>>
        u1 == IF p.UserID # "" /\ ~found
              THEN MapPut(st.users, p.UserID, Append(old, p.ShortID))
              ELSE st.users
    IN  [urls |-> m1, users |-> u1]

RECURSIVE MemSaveBatch(_, _)
MemSaveBatch(st, pairs) ==
    IF pairs = <<>> THEN st
    ELSE MemSaveBatch(MemSavePair(st, Head(pairs)), Tail(pairs))

\* append(l[:i], l[i+1:]...) for the first i with l[i] = shortID
RECURSIVE RemoveFirst(_, _)
RemoveFirst(l, shortID) ==
    IF l = <<>> THEN <<>>
    ELSE IF Head(l) = shortID THEN Tail(l)
    ELSE <<Head(l)>> \o RemoveFirst(Tail(l), shortID)

\* one iteration of BatchDeleteUserURLs' loop over shortIDs
MemDeleteOne(st, userID, shortID) ==
    IF shortID \in DOMAIN st.urls
    THEN [urls  |-> MapDelete(st.urls, shortID),
          users |-> IF userID \in DOMAIN st.users
                    THEN [st.users EXCEPT ![userID] = RemoveFirst(@, shortID)]
                    ELSE st.users]
    ELSE st

RECURSIVE MemBatchDeleteUserURLs(_, _, _)
MemBatchDeleteUserURLs(st, userID, shortIDs) ==
    IF shortIDs = <<>> THEN st
    ELSE MemBatchDeleteUserURLs(MemDeleteOne(st, userID, Head(shortIDs)),
                                userID, Tail(shortIDs))

(***************************************************************************)
(* FileBackup: the snapshot file of InMemoryStorage, a JSON array of        *)
(* URLRecord {uuid, short_url, original_url}. The uuid is written and read  *)
(* back but never used, and is left out.                                    *)
(***************************************************************************)
\* json.Encoder on one character of a string: the escapes of encoding/json
\* (HTML escaping is on by default); a byte that is not valid UTF-8 is
\* written as the escape of U+FFFD
JSONEscape(c) ==
    IF c = "\\" THEN "\\\\"
    ELSE IF c = "&" THEN "\\u0026"
    ELSE IF c = "<" THEN "\\u003c"
    ELSE IF c = ">" THEN "\\u003e"
    ELSE IF c = "!" THEN "\\ufffd"
    ELSE c

\* the JSON string literal (without its quotes) written for s
RECURSIVE JSONEncodeString(_)
JSONEncodeString(s) ==
    IF s = "" THEN ""
    ELSE JSONEscape(SubSeq(s, 1, 1)) \o JSONEncodeString(SubSeq(s, 2, Len(s)))

\* json.Unmarshal on a string literal: the escapes are undone
RECURSIVE JSONDecodeString(_)
JSONDecodeString(e) ==
    IF e = "" THEN ""
    ELSE IF SubSeq(e, 1, 1) # "\\"
    THEN SubSeq(e, 1, 1) \o JSONDecodeString(SubSeq(e, 2, Len(e)))
    ELSE IF Len(e) >= 6 /\ SubSeq(e, 2, 2) = "u"
    THEN LET h == SubSeq(e, 3, 6)
         IN  (IF h = "0026" THEN "&"
              ELSE IF h = "003c" THEN "<"
              ELSE IF h = "003e" THEN ">"
              ELSE "#") \o JSONDecodeString(SubSeq(e, 7, Len(e)))
    ELSE SubSeq(e, 2, 2) \o JSONDecodeString(SubSeq(e, 3, Len(e)))

\* SaveURL on fb.records: an existing record gets the new URL, a new short
\* URL gets a new record
SaveURL(recs, shortURL, originalURL) == MapPut(recs, shortURL, originalURL)

\* saveToFile: os.Create and the encoding of all the records
SaveToFile(recs) ==
    {[short_url |-> JSONEncodeString(k), original_url |-> JSONEncodeString(recs[k])]
       : k \in DOMAIN recs}

\* InMemoryStorage.Backup: SaveURL for every entry of s.urls, taken in any
\* order; todo is the set of keys not yet written
RECURSIVE BackupAll(_, _, _)
BackupAll(recs, m, todoKeys) ==
    IF todoKeys = {} THEN recs
    ELSE LET k == CHOOSE x \in todoKeys : TRUE
         IN  BackupAll(SaveURL(recs, k, m[k]), m, todoKeys \ {k})

\* LoadURLs: the records decoded from the file are put into fb.records, and
\* the map short URL -> original URL of fb.records is returned
LoadURLs(recs, f) ==
    LET dec == {[k |-> JSONDecodeString(r.short_url), v |-> JSONDecodeString(r.original_url)]
                  : r \in f}
        keys == DOMAIN recs \cup {d.k : d \in dec}
    IN  [x \in keys |->
           IF \E d \in dec : d.k = x
           THEN (CHOOSE d \in dec : d.k = x).v
           ELSE recs[x]]

\* the UserURL both backends build for a short ID; the host is a literal
UserURL(shortID, url) ==
    [ShortURL |-> "http://localhost:8080/" \o shortID, OriginalURL |-> url]

\* GetUserURLs' loop: the user's short IDs that are still keys of urls, in the
\* order of the user's list
RECURSIVE MemUserURLs(_, _)
MemUserURLs(m, shortIDs) ==
    IF shortIDs = <<>> THEN <<>>
    ELSE (IF Head(shortIDs) \in DOMAIN m
          THEN <<UserURL(Head(shortIDs), m[Head(shortIDs)])>>
          ELSE <<>>) \o MemUserURLs(m, Tail(shortIDs))

MemGetUserURLs(m, us, userID) ==
    IF userID \notin DOMAIN us THEN <<>> ELSE MemUserURLs(m, us[userID])

(***************************************************************************)
(* PostgresStorage: table urls(short_id PRIMARY KEY, original_url,         *)
(* user_id, is_deleted DEFAULT FALSE), UNIQUE INDEX on original_url.       *)
(***************************************************************************)
PgRow(url, user) == [url |-> url, user |-> user, deleted |-> FALSE]

\* Save: INSERT (short_id, original_url). A unique violation on
\* idx_urls_original_url becomes ErrURLConflict, any other one (urls_pkey) is
\* returned as it is. When both indexes are violated at once the one reported
\* is the database's choice.
PgSave(t, shortID, url) ==
    LET pk == shortID \in DOMAIN t
        uq == {k \in DOMAIN t : t[k].url = url}
    IN  IF ~pk /\ uq = {}
        THEN {[rows |-> MapPut(t, shortID, PgRow(url, NULL)), err |-> "nil", existing |-> ""]}
        ELSE (IF pk THEN {[rows |-> t, err |-> "error", existing |-> ""]} ELSE {})
             \cup {[rows |-> t, err |-> "conflict", existing |-> k] : k \in uq}

PgGet(t, shortID) ==
    IF shortID \notin DOMAIN t THEN [url |-> "", err |-> "notfound"]
    ELSE IF t[shortID].deleted THEN [url |-> "", err |-> "deleted"]
    ELSE [url |-> t[shortID].url, err |-> "nil"]

\* faulty variant, for sensitivity analysis: the upsert replaces the row
PgSavePairReplace(t, p) ==
    IF \E k \in DOMAIN t \ {p.ShortID} : t[k].url = p.OriginalURL
    THEN [rows |-> t, failed |-> TRUE]
    ELSE [rows |-> MapPut(t, p.ShortID, PgRow(p.OriginalURL, p.UserID)),
          failed |-> FALSE]

\* one INSERT ... ON CONFLICT (short_id) DO UPDATE SET user_id =
\* EXCLUDED.user_id WHERE urls.user_id IS NULL; "failed" when the insert hits
\* the unique index on original_url
PgSavePair(t, p) ==
    IF p.ShortID \in DOMAIN t
    THEN IF t[p.ShortID].user = NULL
         THEN [rows |-> [t EXCEPT ![p.ShortID].user = p.UserID], failed |-> FALSE]
         ELSE [rows |-> t, failed |-> FALSE]
    ELSE IF \E k \in DOMAIN t : t[k].url = p.OriginalURL
         THEN [rows |-> t, failed |-> TRUE]
         ELSE [rows |-> MapPut(t, p.ShortID, PgRow(p.OriginalURL, p.UserID)),
               failed |-> FALSE]

\* faulty variant, for sensitivity analysis: the statements are not in a
\* transaction, what ran before the failing one stays
RECURSIVE PgSaveBatchNoTx(_, _, _)
PgSaveBatchNoTx(t0, t, pairs) ==
    IF pairs = <<>> THEN [rows |-> t, err |-> "nil"]
    ELSE LET r == PgSavePair(t, Head(pairs))
         IN  IF r.failed THEN [rows |-> t, err |-> "error"]
             ELSE PgSaveBatchNoTx(t0, r.rows, Tail(pairs))

\* the transaction of SaveBatch: the rows after the last statement, or the
\* rows before the first one (rollback) when a statement failed
RECURSIVE PgSaveBatchTx(_, _, _)
PgSaveBatchTx(t0, t, pairs) ==
    IF pairs = <<>> THEN [rows |-> t, err |-> "nil"]
    ELSE LET r == PgSavePair(t, Head(pairs))
         IN  IF r.failed THEN [rows |-> t0, err |-> "error"]
             ELSE PgSaveBatchTx(t0, r.rows, Tail(pairs))

\* SaveBatch: the statements, then tx.Commit; a commit that fails leaves the
\* rows as they were before the transaction
PgSaveBatch(t, pairs, commitOK) ==
    LET r == PgSaveBatchTx(t, t, pairs)
    IN  IF r.err = "nil" /\ ~commitOK THEN [rows |-> t, err |-> "error"] ELSE r

\* SELECT short_id, original_url FROM urls WHERE user_id = $1 AND is_deleted =
\* FALSE: the rows returned, in no stated order
PgGetUserURLs(t, userID) ==
    {UserURL(k, t[k].url) : k \in {x \in DOMAIN t : t[x].user = userID /\ ~t[x].deleted}}

\* UPDATE urls SET is_deleted = TRUE WHERE user_id = $1 AND short_id = ANY($2)
PgBatchDeleteUserURLs(t, userID, shortIDs) ==
    IF shortIDs = <<>> THEN t
    ELSE [k \in DOMAIN t |->
            IF t[k].user = userID /\ k \in Range(shortIDs)
            THEN [t[k] EXCEPT !.deleted = TRUE]
            ELSE t[k]]

(***************************************************************************)
(* The URLStorage the service was constructed with.                        *)
(***************************************************************************)
\* storage.Save: the possible outcomes [urls, rows, err, existing]
StorageSave(shortID, url) ==
    IF backend = "memory"
    THEN {[urls |-> o.urls, rows |-> rows, err |-> o.err, existing |-> o.existing]
            : o \in MemSave(urls, shortID, url)}
    ELSE {[urls |-> urls, rows |-> o.rows, err |-> o.err, existing |-> o.existing]
            : o \in PgSave(rows, shortID, url)}

\* storage.Get on a given store state
StorageGetIn(b, m, t, shortID) ==
    IF b = "memory" THEN MemGet(m, shortID) ELSE PgGet(t, shortID)

StorageGet(shortID) == StorageGetIn(backend, urls, rows, shortID)

\* storage.SaveBatch on a given store state: [urls, users, rows, err];
\* commitOK is whether the database commits the transaction
StorageSaveBatchIn(b, m, us, t, pairs, commitOK) ==
    IF b = "memory"
    THEN LET st == MemSaveBatch([urls |-> m, users |-> us], pairs)
         IN  [urls |-> st.urls, users |-> st.users, rows |-> t, err |-> "nil"]
    ELSE LET r == PgSaveBatch(t, pairs, commitOK)
         IN  [urls |-> m, users |-> us, rows |-> r.rows, err |-> r.err]

\* storage.BatchDeleteUserURLs on a given store state: [urls, users, rows]
StorageBatchDeleteIn(b, m, us, t, userID, shortIDs) ==
    IF b = "memory"
    THEN LET st == MemBatchDeleteUserURLs([urls |-> m, users |-> us], userID, shortIDs)
         IN  [urls |-> st.urls, users |-> st.users, rows |-> t]
    ELSE [urls |-> m, users |-> us,
          rows |-> PgBatchDeleteUserURLs(t, userID, shortIDs)]

StorageBatchDelete(userID, shortIDs) ==
    StorageBatchDeleteIn(backend, urls, users, rows, userID, shortIDs)

\* storage.GetUserURLs on a given store state, as the set of its entries
StorageGetUserURLsIn(b, m, us, t, userID) ==
    IF b = "memory" THEN Range(MemGetUserURLs(m, us, userID)) ELSE PgGetUserURLs(t, userID)

StorageGetUserURLs(userID) == StorageGetUserURLsIn(backend, urls, users, rows, userID)

\* the mapping shortID is recorded as owned by userID
Owns(userID, shortID) ==
    IF backend = "memory"
    THEN userID \in DOMAIN users /\ shortID \in Range(users[userID])
    ELSE shortID \in DOMAIN rows /\ rows[shortID].user = userID

(***************************************************************************)
(* URLService: the synchronous operations.                                 *)
(***************************************************************************)
\* NewURLService: the base URL gets a trailing slash when it has none
NormalizeBaseURL(b) == IF HasSuffixSlash(b) THEN b ELSE b \o "/"

\* what tx.Commit can do: only the relational backend has a transaction
CommitOutcomes == IF backend = "postgres" THEN BOOLEAN ELSE {TRUE}

\* Shorten's result for one outcome o of storage.Save
ShortenResult(shortID, o) ==
    LET shortURL == baseURL \o (IF HasSuffixSlash(baseURL) THEN "" ELSE "/") \o shortID
    IN  IF o.err = "conflict"
        THEN [out |-> baseURL \o o.existing, err |-> "conflict",
              existing |-> baseURL \o o.existing]
        ELSE IF o.err = "nil"
        THEN [out |-> shortURL, err |-> "nil", existing |-> ""]
        ELSE [out |-> "", err |-> "error", existing |-> ""]

\* the short ID an observed successful Shorten(url) returned, unless an applied
\* deletion has named it
LiveIssued(url) == {s \in ShortIDs : <<url, s>> \in issued /\ s \notin named}

\* history: any one successful Shorten may become the observed one
Observe(url, shortID, err) ==
    IF hist /\ err = "nil" /\ issued = {}
    THEN {{}, {<<url, shortID>>}}
    ELSE {issued}

\* Shorten(url), shortID being what generateShortID returned
Shorten(url, shortID) ==
    \E o \in StorageSave(shortID, url) :
        LET r == ShortenResult(shortID, o)
        IN  /\ urls' = o.urls
            /\ rows' = o.rows
            /\ issued' \in Observe(url, shortID, r.err)
            /\ ret' = [op |-> "Shorten", out |-> r.out, err |-> r.err,
                       existing |-> r.existing]
            /\ UNCHANGED <<pipeVars, callVars>>
            /\ UNCHANGED <<backend, baseURL, hist, users, named, snapVars>>

\* ShortenWithUser(ctx, url, userID)
ShortenWithUser(url, userID, shortID) ==
    \E o \in StorageSave(shortID, url), commitOK \in CommitOutcomes :
        LET r == ShortenResult(shortID, o)
            id == SubSeq(r.out, Len(baseURL) + 1, Len(r.out))
            sb == IF r.err = "nil" /\ userID # ""
                  THEN StorageSaveBatchIn(backend, o.urls, users, o.rows,
                         <<[ShortID |-> id, OriginalURL |-> url, UserID |-> userID]>>,
                         commitOK)
                  ELSE [urls |-> o.urls, users |-> users, rows |-> o.rows, err |-> "nil"]
        IN  /\ urls' = sb.urls
            /\ users' = sb.users
            /\ rows' = sb.rows
            /\ issued' \in Observe(url, shortID, r.err)
            /\ ret' = [op |-> "ShortenWithUser", out |-> r.out, err |-> r.err,
                       existing |-> r.existing]
            /\ UNCHANGED <<pipeVars, callVars>>
            /\ UNCHANGED <<backend, baseURL, hist, named, snapVars>>

\* the BatchShortenRequests of a client that submits the URLs us: request i
\* carries the correlation ID "c<i>"
Requests(us) ==
    [i \in 1..Len(us) |-> [CorrelationID |-> "c" \o ToString(i), OriginalURL |-> us[i]]]

\* the urlPairs ShortenBatch builds; ids[i] is the i-th generated ID
BatchPairs(reqs, ids, userID) ==
    [i \in 1..Len(reqs) |->
       [ShortID |-> ids[i], OriginalURL |-> reqs[i].OriginalURL, UserID |-> userID]]

\* faulty variant, for sensitivity analysis: the responses are built back to
\* front
BatchResponsesReversed(reqs, ids) ==
    [i \in 1..Len(reqs) |->
       [CorrelationID |-> reqs[Len(reqs) + 1 - i].CorrelationID,
        ShortURL |-> baseURL \o ids[i]]]

\* the responses ShortenBatch builds
BatchResponses(reqs, ids) ==
    [i \in 1..Len(reqs) |->
       [CorrelationID |-> reqs[i].CorrelationID, ShortURL |-> baseURL \o ids[i]]]

\* ShortenBatch(ctx, requests) (userID = "") and
\* ShortenBatchWithUser(ctx, requests, userID): nothing is done for an empty
\* list; otherwise one SaveBatch, and the responses when it succeeded
ShortenBatch(reqs, ids, userID) ==
    /\ IF Len(reqs) = 0
       THEN /\ ret' = [op |-> "ShortenBatch", err |-> "nil", out |-> <<>>]
            /\ UNCHANGED <<urls, users, rows>>
       ELSE \E commitOK \in CommitOutcomes :
              LET sb == StorageSaveBatchIn(backend, urls, users, rows,
                                           BatchPairs(reqs, ids, userID), commitOK)
              IN  /\ urls' = sb.urls
                  /\ users' = sb.users
                  /\ rows' = sb.rows
                  /\ ret' = [op |-> "ShortenBatch", err |-> sb.err,
                             out |-> IF sb.err = "nil"
                                     THEN BatchResponses(reqs, ids)
                                     ELSE <<>>]
    /\ UNCHANGED <<pipeVars, callVars>>
    /\ UNCHANGED <<backend, baseURL, hist, issued, named, snapVars>>

\* Expand(shortID)
Expand(shortID) ==
    LET g == StorageGet(shortID)
    IN  /\ ret' = [op |-> "Expand", id |-> shortID, out |-> g.url, err |-> g.err]
        /\ UNCHANGED <<pipeVars, callVars>>
        /\ UNCHANGED <<backend, baseURL, hist, urls, users, rows, issued, named, snapVars>>

\* GetUserURLs(ctx, userID)
GetUserURLs(userID) ==
    /\ ret' = [op |-> "GetUserURLs", user |-> userID, err |-> "nil",
               out |-> StorageGetUserURLs(userID)]
    /\ UNCHANGED <<pipeVars, callVars>>
    /\ UNCHANGED <<backend, baseURL, hist, urls, users, rows, issued, named, snapVars>>

\* storage.BatchDeleteUserURLs(ctx, userID, shortIDs), as processBatch calls it
BatchDeleteUserURLs(userID, shortIDs) ==
    LET d == StorageBatchDelete(userID, shortIDs)
    IN  /\ urls' = d.urls
        /\ users' = d.users
        /\ rows' = d.rows
        /\ named' = named \cup (Range(shortIDs) \cap {p[2] : p \in issued})
        /\ ret' = [op |-> "BatchDeleteUserURLs", err |-> "nil"]
        /\ UNCHANGED <<pipeVars, callVars>>
        /\ UNCHANGED <<backend, baseURL, hist, issued, snapVars>>

\* InMemoryStorage.Backup() returning nil: every entry of s.urls went through
\* SaveURL and the last saveToFile wrote all the records
Backup ==
    /\ backend = "memory"
    /\ records' = BackupAll(records, urls, DOMAIN urls)
    /\ file' = IF DOMAIN urls = {} THEN file ELSE SaveToFile(records')
    /\ ret' = [op |-> "Backup", err |-> "nil"]
    /\ UNCHANGED <<pipeVars, callVars>>
    /\ UNCHANGED <<backend, baseURL, hist, urls, users, rows, issued, named>>

\* InMemoryStorage.Backup() returning an error: os.Create fails in the first
\* saveToFile, after SaveURL has changed fb.records
BackupFails ==
    /\ backend = "memory"
    /\ \E k \in DOMAIN urls : records' = SaveURL(records, k, urls[k])
    /\ ret' = [op |-> "Backup", err |-> "error"]
    /\ UNCHANGED <<pipeVars, callVars>>
    /\ UNCHANGED <<backend, baseURL, hist, urls, users, rows, issued, named, file>>

\* the process ends and a new one calls NewInMemoryStorage on the same file:
\* a new FileBackup, s.urls = backup.LoadURLs(), s.users empty
NewInMemoryStorage ==
    /\ backend = "memory"
    /\ records' = LoadURLs(<<>>, file)
    /\ urls' = records'
    /\ users' = <<>>
    /\ ret' = NoRet
    /\ UNCHANGED <<pipeVars, callVars>>
    /\ UNCHANGED <<backend, baseURL, hist, rows, issued, named, file>>

(***************************************************************************)
(* URLService.Shorten called from several goroutines: each call takes one  *)
(* step per storage statement. InMemoryStorage.Save runs under s.mu; the   *)
(* INSERT of PostgresStorage.Save is one statement, and the SELECT that    *)
(* looks up the existing short_id is a second one.                         *)
(***************************************************************************)
\* SELECT short_id FROM urls WHERE original_url = $1
PgSelectShortID(t, url) == {k \in DOMAIN t : t[k].url = url}

\* the store holds url, under any short ID
Stored(url) ==
    IF backend = "memory"
    THEN \E k \in DOMAIN urls : urls[k] = url
    ELSE PgSelectShortID(rows, url) # {}

\* the store has an entry under shortID
Used(shortID) ==
    IF backend = "memory" THEN shortID \in DOMAIN urls ELSE shortID \in DOMAIN rows

\* the call of caller p has returned from storage.Save with outcome o
Saved(p, o) ==
    LET r == ShortenResult(calls[p].id, o)
    IN  [calls EXCEPT ![p] = [@ EXCEPT !.pc = "done", !.out = r.out, !.err = r.err,
                                        !.existing = r.existing]]

\* caller p enters Shorten(url); generateShortID returns shortID. History:
\* fresh (the store did not hold url, and shortID is this call's alone: not in
\* the store and not generated by an overlapping call), over (the callers
\* whose calls overlap this one)
ShortenBegin(p, url, shortID) ==
    /\ calls[p].pc = "idle"
    /\ LET others == {q \in Callers \ {p} : calls[q].pc \in {"save", "select"}}
       IN  calls' = [q \in Callers |->
                       IF q = p
                       THEN [pc |-> "save", url |-> url, id |-> shortID,
                             fresh |-> /\ ~Stored(url)
                                       /\ ~Used(shortID)
                                       /\ \A o \in others : calls[o].id # shortID,
                             over |-> others, out |-> "", err |-> "", existing |-> ""]
                       ELSE IF q \in others
                       THEN [calls[q] EXCEPT !.over = @ \cup {p},
                                             !.fresh = @ /\ calls[q].id # shortID]
                       ELSE calls[q]]
    /\ UNCHANGED <<storeVars, pipeVars>>

\* caller p's storage.Save: the locked scan and insert of InMemoryStorage, or
\* the INSERT of PostgresStorage; a violation of idx_urls_original_url leads
\* on to the SELECT
ShortenSave(p) ==
    /\ calls[p].pc = "save"
    /\ \E o \in StorageSave(calls[p].id, calls[p].url) :
          /\ urls' = o.urls
          /\ rows' = o.rows
          /\ calls' = IF backend = "postgres" /\ o.err = "conflict"
                      THEN [calls EXCEPT ![p].pc = "select"]
                      ELSE Saved(p, o)
    /\ UNCHANGED pipeVars
    /\ UNCHANGED <<backend, baseURL, hist, users, issued, named, ret, snapVars>>

\* caller p's SELECT of the existing short_id, after its INSERT has failed
ShortenSelect(p) ==
    /\ calls[p].pc = "select"
    /\ LET found == PgSelectShortID(rows, calls[p].url)
       IN  IF found = {}
           THEN calls' = Saved(p, [err |-> "error", existing |-> ""])
           ELSE \E k \in found : calls' = Saved(p, [err |-> "conflict", existing |-> k])
    /\ UNCHANGED <<storeVars, pipeVars>>

\* caller p's Shorten returns
ShortenReturn(p) ==
    /\ calls[p].pc = "done"
    /\ ret' = [op |-> "Shorten", out |-> calls[p].out, err |-> calls[p].err,
               existing |-> calls[p].existing]
    /\ calls' = [calls EXCEPT ![p] = NoShorten]
    /\ UNCHANGED pipeVars
    /\ UNCHANGED <<backend, baseURL, hist, urls, users, rows, issued, named, snapVars>>

(***************************************************************************)
(* URLService: the deletion pipeline.                                      *)
(***************************************************************************)
Workers == 1..numWorkers

\* the deletion requests clients submit: two of one owner with different ID
\* lists, one of another owner, and one with no ID at all
PipeReqs ==
    {[UserID |-> "u1", ShortIDs |-> <<"AAAAAAAA">>],
     [UserID |-> "u1", ShortIDs |-> <<"BBBBBBBB", "AAAAAAAA">>],
     [UserID |-> "u2", ShortIDs |-> <<"AAAAAAAA">>],
     [UserID |-> "u2", ShortIDs |-> <<>>]}

NoCall == [user |-> "", ids |-> <<>>]

\* select { case s.deleteChan <- req: return nil; default: return full }
TrySend(ch, req) ==
    IF Len(ch) < deleteChanCap
    THEN [ch |-> Append(ch, req), err |-> "nil"]
    ELSE [ch |-> ch, err |-> "full"]

\* DeleteUserURLs(userID, shortIDs); the request carries its history tag
DeleteUserURLs(userID, shortIDs) ==
    LET req == [UserID |-> userID, ShortIDs |-> shortIDs, tag |-> nsub + 1]
        r == TrySend(deleteChan, req)
    IN  /\ nsub < quota
        /\ nsub' = nsub + 1
        /\ IF shortIDs = <<>>
           THEN /\ dret' = "nil"
                /\ UNCHANGED <<deleteChan, accepted, rejected>>
           ELSE IF chanClosed
           THEN \* send on a closed channel
                /\ dret' = "panic"
                /\ UNCHANGED <<deleteChan, accepted, rejected>>
           ELSE /\ deleteChan' = r.ch
                /\ dret' = r.err
                /\ accepted' = IF r.err = "nil" THEN accepted \cup {nsub + 1} ELSE accepted
                /\ rejected' = IF r.err = "full" THEN rejected \cup {nsub + 1} ELSE rejected
        /\ UNCHANGED <<storeVars, callVars>>
        /\ UNCHANGED <<chanClosed, cpc, batch, timer, batchChan, batchClosed, wpc, todo,
                       inflight, closePc, quota, applied, curBatch, made>>

\* faulty variant, for sensitivity analysis: the timer is not armed at the first item of a batch
TimerResetUnarmed(t) == {[armed |-> FALSE, c |-> t.c]}

\* timer.Reset(batchTimeout): whether a value already in timer.C survives
\* depends on the Go release the program is built with
TimerReset(t) == {[armed |-> TRUE, c |-> x] : x \in {t.c, FALSE}}

\* timer.Stop(): likewise
TimerStop(t) == {[armed |-> FALSE, c |-> x] : x \in {t.c, FALSE}}

\* faulty variant, for sensitivity analysis: the size trigger is off by one
BatchFullLate(b) == Len(b) > maxBatchSize

\* len(batch) >= maxBatchSize
BatchFull(b) == Len(b) >= maxBatchSize

\* the timer of worker w expires: a value is put in timer.C
TimerFire(w) ==
    /\ timer[w].armed
    /\ timer' = [timer EXCEPT ![w] = [armed |-> FALSE, c |-> TRUE]]
    /\ UNCHANGED <<storeVars, callVars>>
    /\ UNCHANGED <<deleteChan, chanClosed, cpc, batch, batchChan, batchClosed, wpc, todo,
                   inflight, closePc, dret, quota, nsub, accepted, rejected, applied,
                   curBatch, made>>

\* batchCollector, case req, ok := <-s.deleteChan with ok: append, arm the
\* timer at the first item, go on to send the batch when it is full
CollectorRecv(w) ==
    /\ cpc[w] = "select"
    /\ deleteChan # <<>>
    /\ LET b == Append(batch[w], Head(deleteChan))
       IN  /\ deleteChan' = Tail(deleteChan)
           /\ batch' = [batch EXCEPT ![w] = b]
           /\ IF Len(b) = 1
              THEN \E t \in TimerReset(timer[w]) : timer' = [timer EXCEPT ![w] = t]
              ELSE UNCHANGED timer
           /\ cpc' = [cpc EXCEPT ![w] = IF BatchFull(b) THEN "sendFull" ELSE "select"]
    /\ UNCHANGED <<storeVars, callVars>>
    /\ UNCHANGED <<chanClosed, batchChan, batchClosed, wpc, todo, inflight, closePc,
                   dret, quota, nsub, accepted, rejected, applied, curBatch, made>>

\* batchCollector: batchChan <- batch; batch = nil; timer.Stop()
CollectorSendFull(w) ==
    /\ cpc[w] = "sendFull"
    /\ Len(batchChan[w]) < batchChanCap
    /\ batchChan' = [batchChan EXCEPT ![w] = Append(@, batch[w])]
    /\ batch' = [batch EXCEPT ![w] = <<>>]
    /\ \E t \in TimerStop(timer[w]) : timer' = [timer EXCEPT ![w] = t]
    /\ cpc' = [cpc EXCEPT ![w] = "select"]
    /\ UNCHANGED <<storeVars, callVars>>
    /\ UNCHANGED <<deleteChan, chanClosed, batchClosed, wpc, todo, inflight, closePc,
                   dret, quota, nsub, accepted, rejected, applied, curBatch, made>>

\* batchCollector, case <-timer.C
CollectorTimeout(w) ==
    /\ cpc[w] = "select"
    /\ timer[w].c
    /\ timer' = [timer EXCEPT ![w].c = FALSE]
    /\ cpc' = [cpc EXCEPT ![w] = IF Len(batch[w]) > 0 THEN "sendTimer" ELSE "select"]
    /\ UNCHANGED <<storeVars, callVars>>
    /\ UNCHANGED <<deleteChan, chanClosed, batch, batchChan, batchClosed, wpc, todo,
                   inflight, closePc, dret, quota, nsub, accepted, rejected, applied,
                   curBatch, made>>

\* batchCollector, timeout case: batchChan <- batch; batch = nil
CollectorSendTimer(w) ==
    /\ cpc[w] = "sendTimer"
    /\ Len(batchChan[w]) < batchChanCap
    /\ batchChan' = [batchChan EXCEPT ![w] = Append(@, batch[w])]
    /\ batch' = [batch EXCEPT ![w] = <<>>]
    /\ cpc' = [cpc EXCEPT ![w] = "select"]
    /\ UNCHANGED <<storeVars, callVars>>
    /\ UNCHANGED <<deleteChan, chanClosed, timer, batchClosed, wpc, todo, inflight,
                   closePc, dret, quota, nsub, accepted, rejected, applied, curBatch, made>>

\* faulty variant, for sensitivity analysis: the collector returns without
\* closing its batchChan
CloseBatchChanForgotten(closed, w) == closed

\* batchCollector's deferred close(batchChan), run when the collector returns
CloseBatchChan(closed, w) == [closed EXCEPT ![w] = TRUE]

\* faulty variant, for sensitivity analysis: the collector returns without sending its last batch
FlushOnCloseNever(b) == FALSE

\* batchCollector, closed case: if len(batch) > 0, the last batch is sent
FlushOnClose(b) == Len(b) > 0

\* batchCollector, case req, ok := <-s.deleteChan with !ok: the channel is
\* closed and empty; return (closing batchChan) unless a batch is to be sent
CollectorClosed(w) ==
    /\ cpc[w] = "select"
    /\ deleteChan = <<>>
    /\ chanClosed
    /\ IF FlushOnClose(batch[w])
       THEN /\ cpc' = [cpc EXCEPT ![w] = "sendClose"]
            /\ UNCHANGED batchClosed
       ELSE /\ cpc' = [cpc EXCEPT ![w] = "done"]
            /\ batchClosed' = CloseBatchChan(batchClosed, w)
    /\ UNCHANGED <<storeVars, callVars>>
    /\ UNCHANGED <<deleteChan, chanClosed, batch, timer, batchChan, wpc, todo, inflight,
                   closePc, dret, quota, nsub, accepted, rejected, applied, curBatch, made>>

\* batchCollector, closed case: batchChan <- batch; return; close(batchChan)
CollectorSendClose(w) ==
    /\ cpc[w] = "sendClose"
    /\ Len(batchChan[w]) < batchChanCap
    /\ batchChan' = [batchChan EXCEPT ![w] = Append(@, batch[w])]
    /\ batchClosed' = CloseBatchChan(batchClosed, w)
    /\ cpc' = [cpc EXCEPT ![w] = "done"]
    /\ UNCHANGED <<storeVars, callVars>>
    /\ UNCHANGED <<deleteChan, chanClosed, batch, timer, wpc, todo, inflight, closePc,
                   dret, quota, nsub, accepted, rejected, applied, curBatch, made>>

\* faulty variant, for sensitivity analysis: a user's later request replaces the IDs of the earlier ones
RECURSIVE GroupByUserOverwrite(_, _)
GroupByUserOverwrite(ub, b) ==
    IF b = <<>> THEN ub
    ELSE GroupByUserOverwrite(MapPut(ub, Head(b).UserID, Head(b).ShortIDs), Tail(b))

\* processBatch: userBatches[req.UserID] = append(userBatches[req.UserID],
\* req.ShortIDs...) over the batch, starting from the map ub
RECURSIVE GroupByUser(_, _)
GroupByUser(ub, b) ==
    IF b = <<>> THEN ub
    ELSE LET req == Head(b)
             old == IF req.UserID \in DOMAIN ub THEN ub[req.UserID] ELSE <<>>
         IN  GroupByUser(MapPut(ub, req.UserID, old \o req.ShortIDs), Tail(b))

\* faulty variant, for sensitivity analysis: a failed call is made again
AfterCallRetry(ub, userID, err) ==
    IF err = "error" THEN ub ELSE MapDelete(ub, userID)

\* faulty variant, for sensitivity analysis: a failed call ends the loop over userBatches
AfterCallAbort(ub, userID, err) ==
    IF err = "error" THEN <<>> ELSE MapDelete(ub, userID)

\* processBatch: what is left to iterate after the call for userID returned
\* err; the error is dropped
AfterCall(ub, userID, err) == MapDelete(ub, userID)

\* the requests of batch b whose IDs the call c hands to the store
Covered(b, c) ==
    {b[i].tag : i \in {j \in 1..Len(b) :
                         /\ b[j].UserID = c.user
                         /\ Range(b[j].ShortIDs) \subseteq Range(c.ids)}}

\* deleteWorker: batch := <-batchChan, and processBatch builds userBatches
WorkerRecv(w) ==
    /\ wpc[w] = "range"
    /\ batchChan[w] # <<>>
    /\ batchChan' = [batchChan EXCEPT ![w] = Tail(@)]
    /\ todo' = [todo EXCEPT ![w] = GroupByUser(<<>>, Head(batchChan[w]))]
    /\ curBatch' = [curBatch EXCEPT ![w] = Head(batchChan[w])]
    /\ made' = [made EXCEPT ![w] = <<>>]
    /\ wpc' = [wpc EXCEPT ![w] = "process"]
    /\ UNCHANGED <<storeVars, callVars>>
    /\ UNCHANGED <<deleteChan, chanClosed, cpc, batch, timer, batchClosed, inflight,
                   closePc, dret, quota, nsub, accepted, rejected, applied>>

\* processBatch: the next entry of userBatches, in Go's unspecified map
\* order, goes to s.storage.BatchDeleteUserURLs
WorkerCall(w) ==
    /\ wpc[w] = "process"
    /\ \E u \in DOMAIN todo[w] :
         LET c == [user |-> u, ids |-> todo[w][u]]
         IN  /\ inflight' = [inflight EXCEPT ![w] = c]
             /\ applied' = [n \in DOMAIN applied |->
                              IF n \in Covered(curBatch[w], c)
                              THEN applied[n] + 1 ELSE applied[n]]
    /\ wpc' = [wpc EXCEPT ![w] = "call"]
    /\ UNCHANGED <<storeVars, callVars>>
    /\ UNCHANGED <<deleteChan, chanClosed, cpc, batch, timer, batchChan, batchClosed,
                   todo, closePc, dret, quota, nsub, accepted, rejected, curBatch, made>>

\* the store call returns err, having changed the store when err is nil;
\* processBatch goes on, deleteWorker takes the next batch once userBatches
\* is exhausted
WorkerReturn(w, err) ==
    /\ wpc[w] = "call"
    /\ LET d == StorageBatchDelete(inflight[w].user, inflight[w].ids)
       IN  IF err = "nil"
           THEN /\ urls' = d.urls
                /\ users' = d.users
                /\ rows' = d.rows
                /\ named' = named \cup (Range(inflight[w].ids) \cap {p[2] : p \in issued})
           ELSE UNCHANGED <<urls, users, rows, named>>
    /\ LET left == AfterCall(todo[w], inflight[w].user, err)
       IN  /\ todo' = [todo EXCEPT ![w] = left]
           /\ wpc' = [wpc EXCEPT ![w] = IF DOMAIN left = {} THEN "range" ELSE "process"]
           /\ IF DOMAIN left = {}
              THEN /\ made' = [made EXCEPT ![w] = <<>>]
                   /\ curBatch' = [curBatch EXCEPT ![w] = <<>>]
              ELSE /\ made' = [made EXCEPT ![w] =
                                 Append(@, [user |-> inflight[w].user,
                                            ids |-> inflight[w].ids, err |-> err])]
                   /\ UNCHANGED curBatch
    /\ inflight' = [inflight EXCEPT ![w] = NoCall]
    /\ UNCHANGED <<backend, baseURL, hist, issued, ret, snapVars, callVars>>
    /\ UNCHANGED <<deleteChan, chanClosed, cpc, batch, timer, batchChan, batchClosed,
                   closePc, dret, quota, nsub, accepted, rejected, applied>>

\* deleteWorker: batchChan is closed and drained; workerWG.Done()
WorkerExit(w) ==
    /\ wpc[w] = "range"
    /\ batchChan[w] = <<>>
    /\ batchClosed[w]
    /\ wpc' = [wpc EXCEPT ![w] = "done"]
    /\ UNCHANGED <<storeVars, callVars>>
    /\ UNCHANGED <<deleteChan, chanClosed, cpc, batch, timer, batchChan, batchClosed,
                   todo, inflight, closePc, dret, quota, nsub, accepted, rejected, applied,
                   curBatch, made>>

\* Close(): close(s.deleteChan)
CloseCall ==
    /\ closePc = "open"
    /\ chanClosed' = TRUE
    /\ closePc' = "waiting"
    /\ UNCHANGED <<storeVars, callVars>>
    /\ UNCHANGED <<deleteChan, cpc, batch, timer, batchChan, batchClosed, wpc, todo,
                   inflight, dret, quota, nsub, accepted, rejected, applied, curBatch, made>>

\* Close(): s.workerWG.Wait() returns
CloseReturn ==
    /\ closePc = "waiting"
    /\ \A w \in Workers : wpc[w] = "done"
    /\ closePc' = "returned"
    /\ UNCHANGED <<storeVars, callVars>>
    /\ UNCHANGED <<deleteChan, chanClosed, cpc, batch, timer, batchChan, batchClosed,
                   wpc, todo, inflight, dret, quota, nsub, accepted, rejected, applied,
                   curBatch, made>>

\* DeleteUserURLs called by a client before any other call, or while the
\* store call of BlockedWorker's processBatch has not returned
DeleteUserURLsAroundBlock(userID, shortIDs) ==
    /\ nsub = 0 \/ inflight[BlockedWorker] # NoCall
    /\ DeleteUserURLs(userID, shortIDs)

\* NewURLService: the channel is made and the workers are started
InitPipe(q) ==
    /\ quota = q
    /\ deleteChan = <<>>
    /\ chanClosed = FALSE
    /\ cpc = [w \in Workers |-> "select"]
    /\ batch = [w \in Workers |-> <<>>]
    /\ timer = [w \in Workers |-> [armed |-> FALSE, c |-> FALSE]]
    /\ batchChan = [w \in Workers |-> <<>>]
    /\ batchClosed = [w \in Workers |-> FALSE]
    /\ wpc = [w \in Workers |-> "range"]
    /\ todo = [w \in Workers |-> <<>>]
    /\ inflight = [w \in Workers |-> NoCall]
    /\ closePc = "open"
    /\ dret = "none"
    /\ nsub = 0
    /\ accepted = {}
    /\ rejected = {}
    /\ applied = [n \in 1..q |-> 0]
    /\ curBatch = [w \in Workers |-> <<>>]
    /\ made = [w \in Workers |-> <<>>]

NextPipe ==
    \/ \E r \in PipeReqs : DeleteUserURLs(r.UserID, r.ShortIDs)
    \/ \E w \in Workers : TimerFire(w)
    \/ \E w \in Workers : CollectorRecv(w)
    \/ \E w \in Workers : CollectorSendFull(w)
    \/ \E w \in Workers : CollectorTimeout(w)
    \/ \E w \in Workers : CollectorSendTimer(w)
    \/ \E w \in Workers : CollectorClosed(w)
    \/ \E w \in Workers : CollectorSendClose(w)
    \/ \E w \in Workers : WorkerRecv(w)
    \/ \E w \in Workers : WorkerCall(w)
    \/ \E w \in Workers, err \in {"nil", "error"} : WorkerReturn(w, err)
    \/ \E w \in Workers : WorkerExit(w)
    \/ CloseCall
    \/ CloseReturn

\* the pipeline of a service that is not closed, a store call of
\* BlockedWorker's processBatch never returning, and every request but the
\* first being submitted while one is outstanding
NextBlocked ==
    \/ \E r \in PipeReqs : DeleteUserURLsAroundBlock(r.UserID, r.ShortIDs)
    \/ \E w \in Workers : TimerFire(w)
    \/ \E w \in Workers : CollectorRecv(w)
    \/ \E w \in Workers : CollectorSendFull(w)
    \/ \E w \in Workers : CollectorTimeout(w)
    \/ \E w \in Workers : CollectorSendTimer(w)
    \/ \E w \in Workers : WorkerRecv(w)
    \/ \E w \in Workers : WorkerCall(w)
    \/ \E w \in Workers \ {BlockedWorker}, err \in {"nil", "error"} : WorkerReturn(w, err)

InitStore(h) ==
    /\ hist = h
    /\ backend \in {"memory", "postgres"}
    /\ baseURL \in {NormalizeBaseURL(b) : b \in BaseURLs}
    /\ urls = <<>>
    /\ users = <<>>
    /\ rows = <<>>
    /\ issued = {}
    /\ named = {}
    /\ ret = NoRet
    /\ records = <<>>
    /\ file = {}
    /\ calls = [p \in Callers |-> NoShorten]

\* the service operations, with request lists of ShortenBatch up to maxBatch
NextOf(maxBatch) ==
    \/ \E u \in URLs, s \in ShortIDs : Shorten(u, s)
    \/ \E u \in URLs, a \in UserIDs \cup {""}, s \in ShortIDs : ShortenWithUser(u, a, s)
    \/ \E n \in 0..maxBatch, a \in UserIDs \cup {""} :
         \E us \in [1..n -> URLs], ids \in [1..n -> ShortIDs] :
           ShortenBatch(Requests(us), ids, a)
    \/ \E s \in ShortIDs : Expand(s)
    \/ \E a \in UserIDs : GetUserURLs(a)
    \/ \E a \in UserIDs, ids \in SeqsOf(ShortIDs, 1, MaxDelIDs) : BatchDeleteUserURLs(a, ids)

Next == NextOf(MaxBatchReq)

NextHist == NextOf(MaxHistBatchReq)

\* the snapshot-backed store: its operations, Backup, and restarts
NextSnap ==
    \/ \E u \in SnapURLs, k \in ShortIDs : Shorten(u, k)
    \/ \E k \in ShortIDs : Expand(k)
    \/ \E a \in UserIDs, ids \in SeqsOf(ShortIDs, 1, 1) : BatchDeleteUserURLs(a, ids)
    \/ Backup
    \/ BackupFails
    \/ NewInMemoryStorage

\* the operations that build, extend and delete from a store that batches
\* are saved into
NextBatch ==
    \/ \E u \in URLs, s \in ShortIDs : Shorten(u, s)
    \/ \E n \in 0..MaxBatchReq, a \in UserIDs \cup {""} :
         \E us \in [1..n -> URLs], ids \in [1..n -> ShortIDs] :
           ShortenBatch(Requests(us), ids, a)
    \/ \E a \in UserIDs, ids \in SeqsOf(ShortIDs, 1, 1) : BatchDeleteUserURLs(a, ids)

\* Shorten calls of several goroutines, interleaved
NextRace ==
    \/ \E p \in Callers, u \in URLs, k \in CallerIDs : ShortenBegin(p, u, k)
    \/ \E p \in Callers : ShortenSave(p)
    \/ \E p \in Callers : ShortenSelect(p)
    \/ \E p \in Callers : ShortenReturn(p)

Init == InitStore(FALSE) /\ InitPipe(0)

InitSnap == Init /\ backend = "memory"

InitHist == InitStore(TRUE) /\ InitPipe(0)

\* the pipeline over a store that is not looked into
InitPipeOnly(q) ==
    /\ InitPipe(q)
    /\ hist = FALSE
    /\ backend = "memory"
    /\ baseURL = "http://h/"
    /\ urls = <<>>
    /\ users = <<>>
    /\ rows = <<>>
    /\ issued = {}
    /\ named = {}
    /\ ret = NoRet
    /\ records = <<>>
    /\ file = {}
    /\ calls = [p \in Callers |-> NoShorten]

Spec == Init /\ [][Next]_vars

SpecHist == InitHist /\ [][NextHist]_vars

SpecSnap == InitSnap /\ [][NextSnap]_vars

SpecBatch == Init /\ [][NextBatch]_vars

SpecRace == Init /\ [][NextRace]_vars

SpecPipe == InitPipeOnly(MaxReqs) /\ [][NextPipe]_vars

\* Scheduling: a goroutine that can take a step takes one, an armed timer
\* expires, a store call returns. Nothing obliges clients to submit requests
\* or the owner of the service to call Close().
FairPipe ==
    /\ \A w \in Workers :
         /\ WF_vars(TimerFire(w))
         /\ WF_vars(CollectorRecv(w))
         /\ WF_vars(CollectorSendFull(w))
         /\ WF_vars(CollectorTimeout(w))
         /\ WF_vars(CollectorSendTimer(w))
         /\ WF_vars(CollectorClosed(w))
         /\ WF_vars(CollectorSendClose(w))
         /\ WF_vars(WorkerRecv(w))
         /\ WF_vars(WorkerCall(w))
         /\ WF_vars(\E err \in {"nil", "error"} : WorkerReturn(w, err))
         /\ WF_vars(WorkerExit(w))
    /\ WF_vars(CloseReturn)

SpecPipeFair == InitPipeOnly(MaxFairReqs) /\ [][NextPipe]_vars /\ FairPipe

\* Scheduling when a store call of BlockedWorker never returns: every
\* goroutine that can take a step takes one, armed timers expire, and the
\* store calls of the other workers return.
FairBlocked ==
    /\ \A w \in Workers :
         /\ WF_vars(TimerFire(w))
         /\ WF_vars(CollectorRecv(w))
         /\ WF_vars(CollectorSendFull(w))
         /\ WF_vars(CollectorTimeout(w))
         /\ WF_vars(CollectorSendTimer(w))
         /\ WF_vars(WorkerRecv(w))
         /\ WF_vars(WorkerCall(w))
    /\ \A w \in Workers \ {BlockedWorker} :
         WF_vars(\E err \in {"nil", "error"} : WorkerReturn(w, err))

SpecPipeBlocked == InitPipeOnly(MaxBlockedReqs) /\ [][NextBlocked]_vars /\ FairBlocked

(***************************************************************************)
(* The process teardown of run(): server.Shutdown, urlService.Close(), and *)
(* Backup() when the store is an InMemoryStorage. The store holds mappings *)
(* and the deletion requests are given, so that what the pipeline has done *)
(* to the store can be compared between runs.                              *)
(***************************************************************************)
\* the deletion requests of these runs, in the order of submission: one of a
\* user who owns nothing, then two of the owner that name one ID twice
DrainReqs ==
    <<[UserID |-> "u2", ShortIDs |-> <<"AAAAAAAA">>],
      [UserID |-> "u1", ShortIDs |-> <<"AAAAAAAA">>],
      [UserID |-> "u1", ShortIDs |-> <<"BBBBBBBB", "AAAAAAAA">>]>>

\* the store after ShortenWithUser("http://x", "u1") has returned AAAAAAAA and
\* ShortenWithUser("http://y", "u1") BBBBBBBB, on backend b
DrainStore(b) ==
    IF b = "memory"
    THEN [urls |-> MapPut(MapPut(<<>>, "AAAAAAAA", "http://x"), "BBBBBBBB", "http://y"),
          users |-> MapPut(<<>>, "u1", <<"AAAAAAAA", "BBBBBBBB">>),
          rows |-> <<>>]
    ELSE [urls |-> <<>>,
          users |-> <<>>,
          rows |-> MapPut(MapPut(<<>>, "AAAAAAAA", PgRow("http://x", "u1")),
                          "BBBBBBBB", PgRow("http://y", "u1"))]

InitDrain ==
    /\ InitPipe(MaxDrainReqs)
    /\ hist = FALSE
    /\ backend \in {"memory", "postgres"}
    /\ baseURL = "http://h/"
    /\ urls = DrainStore(backend).urls
    /\ users = DrainStore(backend).users
    /\ rows = DrainStore(backend).rows
    /\ issued = {}
    /\ named = {}
    /\ ret = NoRet
    /\ records = <<>>
    /\ file = {}
    /\ calls = [p \in Callers |-> NoShorten]

\* the next DeleteUserURLs call of a client
DeleteUserURLsInOrder ==
    /\ nsub < quota
    /\ nsub < Len(DrainReqs)
    /\ DeleteUserURLs(DrainReqs[nsub + 1].UserID, DrainReqs[nsub + 1].ShortIDs)

\* faulty variant, for sensitivity analysis: run() does not wait for Close()
TeardownReachedBackupEarly == closePc # "open"

\* run() has come to its Backup() call: urlService.Close() has returned
TeardownReachedBackup == closePc = "returned"

\* run(): fileStorage.Backup(), returning nil or an error
TeardownBackup ==
    /\ TeardownReachedBackup
    /\ Backup \/ BackupFails

\* the pipeline with store calls that succeed (InMemoryStorage's never
\* fails), and the teardown
NextDrain ==
    \/ DeleteUserURLsInOrder
    \/ \E w \in Workers : TimerFire(w)
    \/ \E w \in Workers : CollectorRecv(w)
    \/ \E w \in Workers : CollectorSendFull(w)
    \/ \E w \in Workers : CollectorTimeout(w)
    \/ \E w \in Workers : CollectorSendTimer(w)
    \/ \E w \in Workers : CollectorClosed(w)
    \/ \E w \in Workers : CollectorSendClose(w)
    \/ \E w \in Workers : WorkerRecv(w)
    \/ \E w \in Workers : WorkerCall(w)
    \/ \E w \in Workers : WorkerReturn(w, "nil")
    \/ \E w \in Workers : WorkerExit(w)
    \/ CloseCall
    \/ CloseReturn
    \/ TeardownBackup

SpecDrain == InitDrain /\ [][NextDrain]_vars

(***************************************************************************)
(* Claims about the store and the synchronous operations.                  *)
(***************************************************************************)
\* storage.Get after the step
StorageGetNext(shortID) == StorageGetIn(backend', urls', rows', shortID)

\* C1: once Shorten(u) has succeeded with short ID s, every later Shorten(u),
\* while no deletion has named s, returns a Conflict whose existing short URL
\* is baseURL+s, together with that same string.
C1_ShortenIdempotent ==
    [][\A u \in URLs, id \in ShortIDs :
         Shorten(u, id) =>
           \A s \in LiveIssued(u) :
               /\ ret'.err = "conflict"
               /\ ret'.existing = baseURL \o s
               /\ ret'.out = baseURL \o s]_vars

\* C2: a short ID s that Shorten(u) returned expands to u in every later
\* state in which no deletion naming s has been applied.
C2_RoundTrip ==
    \A p \in issued :
        p[2] \notin named => StorageGet(p[2]) = [url |-> p[1], err |-> "nil"]

\* C3: a deletion of a readable short ID requested by its owner leaves Get
\* answering Gone (ErrURLDeleted), not the NotFound of an unknown ID.
C3_GoneAfterOwnerDelete ==
    [][\A a \in UserIDs, ids \in SeqsOf(ShortIDs, 1, MaxDelIDs) :
         BatchDeleteUserURLs(a, ids) =>
           \A s \in Range(ids) :
               (Owns(a, s) /\ StorageGet(s).err = "nil")
                   => StorageGetNext(s).err = "deleted"]_vars

\* C4: BatchDeleteUserURLs(a, ids) returns no error and leaves Get unchanged
\* on every id of ids that a does not own.
C4_OwnershipIsolation ==
    [][\A a \in UserIDs, ids \in SeqsOf(ShortIDs, 1, MaxDelIDs) :
         BatchDeleteUserURLs(a, ids) =>
           /\ ret'.err = "nil"
           /\ \A s \in Range(ids) :
                  ~Owns(a, s) => StorageGetNext(s) = StorageGet(s)]_vars

(***************************************************************************)
(* Claims about the deletion pipeline.                                     *)
(***************************************************************************)
\* the distinct UserIDs of a batch
UsersOf(b) == {b[i].UserID : i \in 1..Len(b)}

\* the ShortIDs of the requests of userID in batch b, concatenated in batch
\* order
RECURSIVE IdsOf(_, _)
IdsOf(b, userID) ==
    IF b = <<>> THEN <<>>
    ELSE (IF Head(b).UserID = userID THEN Head(b).ShortIDs ELSE <<>>)
         \o IdsOf(Tail(b), userID)

\* the store calls of worker w's processBatch so far, the one in flight last
CallsOf(w) ==
    [i \in 1..Len(made[w]) |-> [user |-> made[w][i].user, ids |-> made[w][i].ids]]
    \o (IF wpc[w] = "call" THEN <<inflight[w]>> ELSE <<>>)

\* C5: DeleteUserURLs with a non-empty ID list enqueues and returns nil when
\* the queue holds fewer requests than its capacity, returns
\* ErrDeleteChannelFull and enqueues nothing when it is full, whatever the
\* workers are doing; a rejected request never reaches the store.
C5_EnqueueOrQueueFull ==
    /\ [][\A r \in PipeReqs :
            (r.ShortIDs # <<>> /\ DeleteUserURLs(r.UserID, r.ShortIDs)) =>
              IF Len(deleteChan) < deleteChanCap
              THEN /\ dret' = "nil"
                   /\ Len(deleteChan') = Len(deleteChan) + 1
                   /\ deleteChan'[Len(deleteChan')].UserID = r.UserID
                   /\ deleteChan'[Len(deleteChan')].ShortIDs = r.ShortIDs
              ELSE /\ dret' = "full"
                   /\ deleteChan' = deleteChan]_vars
    /\ [](\A n \in rejected : applied[n] = 0)

\* C5 for the calls made before Close(): the part of the claim the code keeps
C5_EnqueueOrQueueFullWhileOpen ==
    /\ [][\A r \in PipeReqs :
            (r.ShortIDs # <<>> /\ ~chanClosed /\ DeleteUserURLs(r.UserID, r.ShortIDs)) =>
              IF Len(deleteChan) < deleteChanCap
              THEN /\ dret' = "nil"
                   /\ Len(deleteChan') = Len(deleteChan) + 1
                   /\ deleteChan'[Len(deleteChan')].UserID = r.UserID
                   /\ deleteChan'[Len(deleteChan')].ShortIDs = r.ShortIDs
              ELSE /\ dret' = "full"
                   /\ deleteChan' = deleteChan]_vars
    /\ [](\A n \in rejected : applied[n] = 0)

\* C6: when Close() has returned, every request DeleteUserURLs accepted has
\* been passed to BatchDeleteUserURLs and every collector and worker has
\* exited.
C6_GracefulDrain ==
    closePc = "returned" =>
        /\ \A n \in accepted : applied[n] >= 1
        /\ \A w \in Workers : wpc[w] = "done" /\ cpc[w] = "done"

\* C6 witness: Close() has returned after two requests were accepted
C6_Witness == closePc = "returned" /\ Cardinality(accepted) >= 2

\* C7: under fair scheduling every accepted request is eventually passed to
\* BatchDeleteUserURLs, also when no further request arrives and Close() is
\* never called.
C7_TimerFlush == \A n \in 1..MaxFairReqs : (n \in accepted) ~> (applied[n] >= 1)

\* C7 witness: the only request submitted has reached the store while the
\* queue is open: its batch of one was flushed by the timer
C7_Witness ==
    /\ ~chanClosed
    /\ nsub = 1
    /\ maxBatchSize > 1
    /\ applied[1] = 1

\* C8: every batch handed to an applier holds between 1 and maxBatchSize
\* requests, and a collector that is back at its select holds fewer than
\* maxBatchSize.
C8_BatchSizeBound ==
    \A w \in Workers :
        /\ \A i \in 1..Len(batchChan[w]) :
               Len(batchChan[w][i]) >= 1 /\ Len(batchChan[w][i]) <= maxBatchSize
        /\ cpc[w] \in {"sendFull", "sendTimer", "sendClose"} =>
               Len(batch[w]) >= 1 /\ Len(batch[w]) <= maxBatchSize
        /\ cpc[w] = "sendFull" => Len(batch[w]) = maxBatchSize
        /\ cpc[w] = "select" => Len(batch[w]) < maxBatchSize
        /\ wpc[w] \in {"process", "call"} =>
               Len(curBatch[w]) >= 1 /\ Len(curBatch[w]) <= maxBatchSize

\* C8 witness: a full batch and a shorter one have been handed over
C8_Witness ==
    \E w1, w2 \in Workers :
        /\ batchChan[w1] # <<>> /\ Len(batchChan[w1][1]) = maxBatchSize
        /\ batchChan[w2] # <<>> /\ Len(batchChan[w2][1]) < maxBatchSize

\* C9: processBatch calls BatchDeleteUserURLs once per distinct UserID of the
\* batch, with the ShortIDs of that user's requests concatenated in batch
\* order, and for no other user.
C9_Coalescing ==
    \A w \in Workers :
        wpc[w] \in {"process", "call"} =>
            LET cs == CallsOf(w)
                ret0 == {made[w][i].user : i \in 1..Len(made[w])}
            IN  /\ \A i \in 1..Len(cs) :
                       /\ cs[i].user \in UsersOf(curBatch[w])
                       /\ cs[i].ids = IdsOf(curBatch[w], cs[i].user)
                /\ \A i, j \in 1..Len(cs) : cs[i].user = cs[j].user => i = j
                /\ ret0 \cup DOMAIN todo[w] = UsersOf(curBatch[w])
                /\ ret0 \cap DOMAIN todo[w] = {}

\* C9 witness: two requests of one user in a batch, their IDs in one call
C9_Witness ==
    \E w \in Workers :
        /\ wpc[w] = "call"
        /\ Len(curBatch[w]) = 2
        /\ curBatch[w][1].UserID = curBatch[w][2].UserID
        /\ curBatch[w][1].ShortIDs # curBatch[w][2].ShortIDs
        /\ inflight[w].ids = curBatch[w][1].ShortIDs \o curBatch[w][2].ShortIDs

\* C10: when a store call of a batch returns an error, the calls for the
\* batch's other owners are still to be made, the worker goes on (to the next
\* owner, or to the next batch), and nothing a caller sees changes.
C10_FailureIsolation ==
    [][\A w \in Workers :
         WorkerReturn(w, "error") =>
           /\ DOMAIN todo'[w] = DOMAIN todo[w] \ {inflight[w].user}
           /\ \A u \in DOMAIN todo'[w] : todo'[w][u] = todo[w][u]
           /\ wpc'[w] = IF DOMAIN todo'[w] = {} THEN "range" ELSE "process"
           /\ dret' = dret
           /\ UNCHANGED <<deleteChan, chanClosed, batchChan, batchClosed, closePc>>]_vars

\* C10 witness: the call for a batch's second owner is in flight after the
\* call for its first owner failed
C10_Witness ==
    \E w \in Workers :
        /\ wpc[w] = "call"
        /\ Len(made[w]) = 1
        /\ made[w][1].err = "error"
        /\ inflight[w].user # made[w][1].user

\* the places of the pipeline that hold the request tagged n: a slot of the
\* queue, of a running collector's batch, of a batch in a batchChan, or of the
\* batch a processBatch is working on
Holders(n) ==
    {<<"deleteChan", 0, 0, i>> : i \in {j \in 1..Len(deleteChan) : deleteChan[j].tag = n}}
    \cup UNION {{<<"batch", w, 0, i>> : i \in {j \in 1..Len(batch[w]) : batch[w][j].tag = n}}
                  : w \in {v \in Workers : cpc[v] # "done"}}
    \cup UNION {UNION {{<<"batchChan", w, k, i>>
                          : i \in {j \in 1..Len(batchChan[w][k]) : batchChan[w][k][j].tag = n}}
                         : k \in 1..Len(batchChan[w])}
                  : w \in Workers}
    \cup UNION {{<<"processBatch", w, 0, i>>
                   : i \in {j \in 1..Len(curBatch[w]) : curBatch[w][j].tag = n}}
                  : w \in Workers}

\* C11: an accepted request is held by at most one collector, batch or
\* applier at a time, its IDs go to BatchDeleteUserURLs at most once, and once
\* they have it is never again in the queue, in a collector's batch or in a
\* batchChan, whether the call succeeded or failed.
C11_AtMostOnce ==
    \A n \in 1..MaxReqs :
        /\ Cardinality(Holders(n)) <= 1
        /\ n \notin accepted => Holders(n) = {} /\ applied[n] = 0
        /\ applied[n] <= 1
        /\ applied[n] = 1 => \A h \in Holders(n) : h[1] = "processBatch"

\* C11 witness: two accepted requests have each been applied once, the call
\* for the first of a batch's owners failed, and nothing is queued any more
C11_Witness ==
    /\ Cardinality(accepted) >= 2
    /\ \A n \in accepted : applied[n] = 1
    /\ deleteChan = <<>>
    /\ \A w \in Workers : batch[w] = <<>> /\ batchChan[w] = <<>>
    /\ \E w \in Workers : Len(made[w]) = 1 /\ made[w][1].err = "error"

(***************************************************************************)
(* Claims about ownership, batches and listings.                           *)
(***************************************************************************)
\* Owns after the step
OwnsNext(userID, shortID) ==
    IF backend' = "memory"
    THEN userID \in DOMAIN users' /\ shortID \in Range(users'[userID])
    ELSE shortID \in DOMAIN rows' /\ rows'[shortID].user = userID

\* storage.GetUserURLs after the step
StorageGetUserURLsNext(userID) ==
    StorageGetUserURLsIn(backend', urls', users', rows', userID)

\* C12: a SaveBatch pair naming a short ID that owner a already has, under
\* another owner b, does not make b an owner: a still owns it, GetUserURLs(b)
\* does not list it and BatchDeleteUserURLs(b, [shortID]) leaves Get as it is.
C12_FirstWriterWins ==
    [][\A n \in 1..MaxBatchReq, a \in UserIDs, b \in UserIDs :
         \A reqs \in [1..n -> URLs], ids \in [1..n -> ShortIDs] :
           (a # b /\ ret'.op = "ShortenBatch" /\ ShortenBatch(Requests(reqs), ids, b)) =>
             \A i \in 1..n :
               (Owns(a, ids[i]) /\ StorageGet(ids[i]).err = "nil") =>
                 LET d == StorageBatchDeleteIn(backend', urls', users', rows', b, <<ids[i]>>)
                 IN  /\ OwnsNext(a, ids[i])
                     /\ ~OwnsNext(b, ids[i])
                     /\ \A e \in StorageGetUserURLsNext(b) :
                            e.ShortURL # UserURL(ids[i], "").ShortURL
                     /\ StorageGetIn(backend', d.urls, d.rows, ids[i]) = StorageGetNext(ids[i])]_vars

\* some ShortenBatch call that generated ids can have returned what the step
\* returned; every step ShortenBatch(_, ids, _) satisfies it, and it is
\* evaluated before the requests and the user are enumerated
ReturnedFor(n, ids) ==
    \E us \in [1..n -> URLs] :
        ret'.out \in {<<>>, BatchResponses(Requests(us), ids)}

\* C13: on the relational backend a SaveBatch that returns an error (a
\* statement or the commit failed) leaves the table as it was; one that
\* returns ok leaves a mapping under every pair's short ID, the pair's own
\* when the ID was new, and has attached the owner wherever there was none.
C13_SaveBatchAtomic ==
    [][(backend = "postgres" /\ ret'.op = "ShortenBatch") =>
         \A n \in 1..MaxBatchReq :
           \A ids \in [1..n -> ShortIDs] :
             ReturnedFor(n, ids) =>
               \A reqs \in [1..n -> URLs], a \in UserIDs \cup {""} :
                 ShortenBatch(Requests(reqs), ids, a) =>
                   IF ret'.err # "nil"
                   THEN rows' = rows /\ ret'.out = <<>>
                   ELSE \A i \in 1..n :
                          /\ ids[i] \in DOMAIN rows'
                          /\ ~rows'[ids[i]].deleted \/ ids[i] \in DOMAIN rows
                          /\ (ids[i] \notin DOMAIN rows /\ \A j \in 1..(i - 1) : ids[j] # ids[i])
                               => rows'[ids[i]] = PgRow(reqs[i], a)
                          /\ (ids[i] \in DOMAIN rows /\ rows[ids[i]].user = NULL)
                               => rows'[ids[i]].user = a
                          /\ \A k \in DOMAIN rows' \ Range(ids) :
                                 k \in DOMAIN rows /\ rows'[k] = rows[k]]_vars

\* C13 witness: a SaveBatch on the relational backend has returned an error
\* over a table that holds a row, the row still without an owner
C13_Witness ==
    /\ backend = "postgres"
    /\ ret.op = "ShortenBatch"
    /\ ret.err = "error"
    /\ DOMAIN rows = {"AAAAAAAA"}
    /\ rows["AAAAAAAA"].user = NULL

\* the short IDs GetUserURLs(userID) lists
Listed(userID) ==
    {k \in ShortIDs : \E e \in StorageGetUserURLs(userID) : e.ShortURL = UserURL(k, "").ShortURL}

\* C14: GetUserURLs(a) lists every readable mapping recorded as a's, lists
\* only readable mappings recorded as a's, each with its URL, and, a mapping
\* having one owner, lists none that the listing of another user holds.
C14_UserURLsExact ==
    \A a \in UserIDs :
        /\ \A k \in ShortIDs :
               (Owns(a, k) /\ StorageGet(k).err = "nil")
                   => UserURL(k, StorageGet(k).url) \in StorageGetUserURLs(a)
        /\ \A e \in StorageGetUserURLs(a) :
               \E k \in ShortIDs :
                   /\ Owns(a, k)
                   /\ StorageGet(k).err = "nil"
                   /\ e = UserURL(k, StorageGet(k).url)
        /\ \A b \in UserIDs \ {a} : Listed(a) \cap Listed(b) = {}

\* C15: Shorten(u) with a fresh generated ID, at a time when no readable
\* mapping holds u (each one that held it has been deleted), stores the new
\* mapping and returns ok, not a Conflict and not a store error.
C15_ConflictOnlyIfLive ==
    [][\A u \in URLs, id \in ShortIDs :
         (/\ StorageGet(id).err = "notfound"
          /\ \A k \in ShortIDs : StorageGet(k).url # u
          /\ Shorten(u, id)) =>
            /\ ret'.err = "nil"
            /\ StorageGetNext(id) = [url |-> u, err |-> "nil"]]_vars

\* C16: in every reachable state no two readable mappings hold the same
\* original URL.
C16_OneLiveMappingPerURL ==
    \A k1, k2 \in ShortIDs :
        (/\ StorageGet(k1).err = "nil"
         /\ StorageGet(k2).err = "nil"
         /\ StorageGet(k1).url = StorageGet(k2).url) => k1 = k2

\* C17: after a Backup() that returned nil, a store constructed from the
\* file answers Get with the same URL for every short ID for which the
\* backed-up store answers with a URL.
C17_SnapshotRoundTrip ==
    [][(Backup /\ ret'.err = "nil") =>
         LET fresh == LoadURLs(<<>>, file')
         IN  \A k \in ShortIDs :
                 MemGet(urls, k).err = "nil" => MemGet(fresh, k) = MemGet(urls, k)]_vars

\* C18: a ShortenBatch / ShortenBatchWithUser step on n > 0 requests leaves
\* the store as one SaveBatch of the n pairs (pair i: the i-th generated ID,
\* request i's URL, the user) leaves it; when that SaveBatch succeeds it
\* returns n responses, response i with request i's correlation ID and
\* baseURL + pair i's short ID; when it fails it returns the error and no
\* response; on an empty list it returns an empty result, the store untouched.
C18_ShortenBatchResult ==
    [][ret'.op = "ShortenBatch" =>
         \A n \in 0..MaxBatchReq :
           \A ids \in [1..n -> ShortIDs] :
             ReturnedFor(n, ids) =>
               \A us \in [1..n -> URLs], a \in UserIDs \cup {""} :
                 LET reqs == Requests(us)
                     pairs == [i \in 1..n |-> [ShortID |-> ids[i],
                                                OriginalURL |-> reqs[i].OriginalURL,
                                                UserID |-> a]]
                 IN  ShortenBatch(reqs, ids, a) =>
                       IF n = 0
                       THEN /\ ret'.err = "nil" /\ ret'.out = <<>>
                            /\ UNCHANGED <<urls, users, rows>>
                       ELSE /\ \E c \in CommitOutcomes :
                                 LET sb == StorageSaveBatchIn(backend, urls, users, rows, pairs, c)
                                 IN  /\ <<urls', users', rows'>> = <<sb.urls, sb.users, sb.rows>>
                                     /\ ret'.err = sb.err
                            /\ ret'.err = "nil" =>
                                 /\ Len(ret'.out) = n
                                 /\ \A i \in 1..n :
                                        /\ ret'.out[i].CorrelationID = reqs[i].CorrelationID
                                        /\ ret'.out[i].ShortURL = baseURL \o pairs[i].ShortID
                            /\ ret'.err # "nil" => ret'.out = <<>>]_vars

\* C18 witness: a ShortenBatch of two requests has succeeded
C18_Witness ==
    /\ ret.op = "ShortenBatch"
    /\ ret.err = "nil"
    /\ Len(ret.out) = 2
    /\ ret.out[1].CorrelationID # ret.out[2].CorrelationID
    /\ ret.out[1].ShortURL # ret.out[2].ShortURL

(***************************************************************************)
(* Claims about concurrent callers.                                        *)
(***************************************************************************)
\* the calls of p and q overlapped, both are finished, and both were made for
\* the same URL, which the store did not hold, with different unused IDs
RacedFor(p, q) ==
    /\ p # q
    /\ calls[p].pc = "done"
    /\ calls[q].pc = "done"
    /\ q \in calls[p].over
    /\ p \in calls[q].over
    /\ calls[p].url = calls[q].url
    /\ calls[p].id # calls[q].id
    /\ calls[p].fresh
    /\ calls[q].fresh

C20_WorkerIndependence ==
    \A n \in 2..MaxBlockedReqs : (n \in accepted) ~> (applied[n] >= 1)

(***************************************************************************)
(* Claims about deleted mappings.                                          *)
(***************************************************************************)
\* C21: on the relational backend every step keeps every row, with its
\* original_url; is_deleted never goes from true to false, and goes from
\* false to true in a BatchDeleteUserURLs step only.
C21_SoftDeleteMonotone ==
    [][backend = "postgres" =>
         \A k \in DOMAIN rows :
             /\ k \in DOMAIN rows'
             /\ rows'[k].url = rows[k].url
             /\ rows[k].deleted => rows'[k].deleted
             /\ (~rows[k].deleted /\ rows'[k].deleted)
                    => ret'.op = "BatchDeleteUserURLs"]_vars

\* C21 witness: a SaveBatch that named the short ID of a deleted row has
\* succeeded, and the row is still deleted
C21_Witness ==
    /\ backend = "postgres"
    /\ ret.op = "ShortenBatch"
    /\ ret.err = "nil"
    /\ \E k \in DOMAIN rows, i \in 1..Len(ret.out) :
           rows[k].deleted /\ ret.out[i].ShortURL = baseURL \o k

\* C22: a short ID that Get does not find when a Backup() has just returned
\* nil (in the snapshot-backed store: one that BatchDeleteUserURLs has
\* removed, or one that never was there) is not found either in the store
\* constructed next from the file.
C22_DeletedStaysDeleted ==
    [][(NewInMemoryStorage /\ ret.op = "Backup" /\ ret.err = "nil") =>
         \A k \in ShortIDs :
             MemGet(urls, k).err = "notfound" => MemGet(urls', k).err = "notfound"]_vars

(***************************************************************************)
(* Claims about the ownership lists of InMemoryStorage.                    *)
(***************************************************************************)
\* C23: in the volatile backend every short ID in a user's list is a key of
\* the URL map, and no list holds a short ID twice.
C23_OwnershipIndexConsistent ==
    backend = "memory" =>
        \A a \in DOMAIN users :
            /\ \A i \in 1..Len(users[a]) : users[a][i] \in DOMAIN urls
            /\ \A i, j \in 1..Len(users[a]) : users[a][i] = users[a][j] => i = j

(***************************************************************************)
(* Claims about Shorten and ShortenWithUser.                               *)
(***************************************************************************)
\* C25: a Shorten or ShortenWithUser step that returns a Conflict leaves the
\* store as it was: Get answers as before for every short ID, the generated
\* one included, and no mapping has changed its URL, owner or deleted flag.
C25_ConflictLeavesStore ==
    [][ret'.err = "conflict" =>
         \A u \in URLs, k \in ShortIDs :
             /\ Shorten(u, k) => UNCHANGED <<urls, users, rows>>
             /\ \A a \in UserIDs \cup {""} :
                    ShortenWithUser(u, a, k) =>
                        /\ UNCHANGED <<urls, users, rows>>
                        /\ StorageGetNext(k) = StorageGet(k)]_vars

\* C25 witness: ShortenWithUser has returned a Conflict that names a stored
\* mapping, and the generated ID is not in the store
C25_Witness ==
    /\ ret.op = "ShortenWithUser"
    /\ ret.err = "conflict"
    /\ \E k \in ShortIDs :
           /\ ret.existing = baseURL \o k
           /\ StorageGet(k).err = "nil"
           /\ Owns("u1", k)
    /\ \E k \in ShortIDs : StorageGet(k).err = "notfound"

\* C26: after a ShortenWithUser(u, a) step with a non-empty user a that
\* returned ok with short ID k, a owns k, GetUserURLs(a) lists k with u, and
\* BatchDeleteUserURLs(a, [k]) makes k unreadable.
C26_SuccessMeansOwned ==
    [][(ret'.op = "ShortenWithUser" /\ ret'.err = "nil") =>
         \A u \in URLs, a \in UserIDs, k \in ShortIDs :
             ShortenWithUser(u, a, k) =>
                 LET d == StorageBatchDeleteIn(backend', urls', users', rows', a, <<k>>)
                 IN  /\ ret'.out = baseURL \o k
                     /\ OwnsNext(a, k)
                     /\ UserURL(k, u) \in StorageGetUserURLsNext(a)
                     /\ StorageGetIn(backend', d.urls, d.rows, k).err # "nil"]_vars

(***************************************************************************)
(* Claims about shutdown.                                                  *)
(***************************************************************************)
\* C27: no DeleteUserURLs call sends on the closed queue (each returns nil
\* or an error), and once Close() has returned every request that was
\* answered nil has had its IDs passed to BatchDeleteUserURLs.
C27_SafeAgainstShutdown ==
    /\ dret \in {"none", "nil", "full"}
    /\ closePc = "returned" => \A n \in accepted : applied[n] >= 1

\* C28: under the scheduling of FairPipe (every store call returns) a Close()
\* that has closed the queue returns, and when it has returned every
\* collector and every applier has finished.
C28_CloseTerminates ==
    /\ (closePc = "waiting") ~> (closePc = "returned")
    /\ [](closePc = "returned" =>
            \A w \in Workers : cpc[w] = "done" /\ wpc[w] = "done" /\ batchClosed[w])

\* C28 witness: Close() has returned, every collector and applier finished,
\* after both requests of the run were accepted and passed to the store
C28_Witness ==
    /\ closePc = "returned"
    /\ \A w \in Workers : wpc[w] = "done"
    /\ accepted = {1, 2}
    /\ applied[1] >= 1
    /\ applied[2] >= 1

(***************************************************************************)
(* Claims about the short URLs of a listing.                               *)
(***************************************************************************)
\* C30: after a ShortenWithUser(u, a) step that returned ok and recorded a as
\* the owner, every entry GetUserURLs(a) lists for the original URL u carries
\* the short URL the call returned (base URL ending in "/", then the short
\* ID), and there is such an entry.
C30_ListedEqualsReturned ==
    [][(ret'.op = "ShortenWithUser" /\ ret'.err = "nil") =>
         \A u \in URLs, a \in UserIDs, k \in ShortIDs :
             (ShortenWithUser(u, a, k) /\ OwnsNext(a, k)) =>
                 /\ \E e \in StorageGetUserURLsNext(a) : e.OriginalURL = u
                 /\ \A e \in StorageGetUserURLsNext(a) :
                        e.OriginalURL = u => e.ShortURL = ret'.out]_vars

(***************************************************************************)
(* Claims about the process teardown.                                      *)
(***************************************************************************)
\* the short IDs named by the accepted requests of a teardown run
DrainNamed == UNION {Range(DrainReqs[n].ShortIDs) : n \in accepted}

\* C24: when Backup() runs at teardown, Close() has returned: every collector
\* and applier is finished, every accepted request has been passed to the
\* store, and no short ID an accepted request names is left in s.urls.
C24_BackupAfterDrain ==
    ret.op = "Backup" =>
        /\ closePc = "returned"
        /\ \A w \in Workers : cpc[w] = "done" /\ wpc[w] = "done"
        /\ \A n \in accepted : applied[n] >= 1
        /\ DOMAIN urls \cap DrainNamed = {}

\* C24 witness: Backup() has written the snapshot after two accepted requests
\* were applied, and the snapshot holds the one mapping that is left
C24_Witness ==
    /\ ret.op = "Backup"
    /\ ret.err = "nil"
    /\ accepted = {1, 2}
    /\ DOMAIN urls = {"BBBBBBBB"}
    /\ file = SaveToFile(urls)

\* the store after the requests from the n-th on that are in acc have been
\* applied to st one by one, in the order of submission
RECURSIVE DrainInOrder(_, _, _, _)
DrainInOrder(b, st, acc, n) ==
    IF n > Len(DrainReqs) THEN st
    ELSE DrainInOrder(b,
                      IF n \in acc
                      THEN StorageBatchDeleteIn(b, st.urls, st.users, st.rows,
                                                DrainReqs[n].UserID, DrainReqs[n].ShortIDs)
                      ELSE st,
                      acc, n + 1)

\* C29: once Close() has returned, the store is what applying the accepted
\* requests one by one in the order of submission gives, however they were
\* batched and applied; and applying a BatchDeleteUserURLs call a second time
\* changes nothing.
C29_DeletionOrderInsensitive ==
    /\ closePc = "returned" =>
           [urls |-> urls, users |-> users, rows |-> rows]
               = DrainInOrder(backend, DrainStore(backend), accepted, 1)
    /\ \A a \in UserIDs, ids \in SeqsOf(ShortIDs, 1, MaxDelIDs) :
           LET d == StorageBatchDelete(a, ids)
           IN  StorageBatchDeleteIn(backend, d.urls, d.users, d.rows, a, ids) = d

====
